---- MODULE Spec2Model ----
(***************************************************************************)
(* dundie-api: the user store (routes/user.py, models/user.py), the       *)
(* password-reset background task (tasks/user.py), the admin seeding      *)
(* migration and the balance read of User.balance.                        *)
(*                                                                         *)
(* Text values that the code transforms (names, usernames) are sequences  *)
(* of one-character strings; opaque text (emails, avatars) is a string.   *)
(* Optional[X] is a set: None is {} and a present value x is {x}.         *)
(***************************************************************************)
EXTENDS Integers, Sequences, FiniteSets, TLC

VARIABLES
    users,            \* table "user": rows in insertion order, id = position
    inflight,         \* create_user requests past the LBYL lookup, before commit
    resp,             \* the outcome of the last completed operation
    background_tasks, \* BackgroundTasks queue of send_password_reset_token
    tokens,           \* pwd_reset tokens minted by create_access_token
    outbox,           \* messages handed to send_email
    email_log,        \* failure lines written to email.log
    transactions,     \* table "transaction" (the ledger)
    balances          \* table "balance": user id -> value, for users with a row

vars == <<users, inflight, resp, background_tasks, tokens, outbox, email_log,
          transactions, balances>>

userVars == <<users, inflight>>
resetVars == <<background_tasks, tokens, outbox, email_log>>
ledgerVars == <<transactions, balances>>

-----------------------------------------------------------------------------
(* Bounds of the model *)

MaxInflight == 2
MaxTasks == 1
MaxTx == 3

-----------------------------------------------------------------------------
(* Optional values *)

None == {}
Some(x) == {x}
Val(o) == CHOOSE x \in o : TRUE

-----------------------------------------------------------------------------
(* Text *)

S_admin == <<"a", "d", "m", "i", "n">>

Lower(c) ==
    CASE c = "J" -> "j"
      [] c = "H" -> "h"
      [] c = "P" -> "p"
      [] c = "B" -> "b"
      [] OTHER -> c

str_lower(s) == [i \in 1..Len(s) |-> Lower(s[i])]

str_replace(s, old, new) == [i \in 1..Len(s) |-> IF s[i] = old THEN new ELSE s[i]]

generate_username(name) ==
    str_replace(str_replace(str_lower(name), " ", "-"), "_", "-")

-----------------------------------------------------------------------------
(* Inputs *)

Names == {<<"J", " ", "H">>, <<"j", "_", "h">>}
UsernameInputs == {None, Some(S_admin)}
Emails == {"admin@dm.com", "jim@dm.com"}
Depts == {"management", "sales"}
DraftPasswords == {"pw1"}
NewPasswords == {"pw2"}
PasswordConfirms == {"pw1", "pw2"}
AvatarInputs == {None, Some("a.png")}
BioInputs == {None, Some("hi")}
ResetEmails == {"admin@dm.com", "jim@dm.com"}
AckMessage == "If we found a user with that email, we sent a password reset token to it."
TxValues == {100, 30, -5}
TargetUsernames == {S_admin, <<"j", "-", "h">>, <<"g", "h", "o", "s", "t">>}

-----------------------------------------------------------------------------
(* dundie.security *)

get_password_hash(plain) == <<"hash", plain>>

-----------------------------------------------------------------------------
(* models/user.py *)

\* superuser that takes any department for the privileged one
superuser_any_dept(u) == u.dept /= ""

superuser(u) == u.dept = "management"

\* UserRequest with its pre root_validator generate_username_if_not_set
UserRequest(name, email, dept, password, username) ==
    [name |-> name,
     email |-> email,
     dept |-> dept,
     password |-> password,
     currency |-> "USD",
     username |-> IF username = None THEN generate_username(name) ELSE Val(username),
     avatar |-> None,
     bio |-> None]

UserRequests ==
    {UserRequest(n, e, d, p, u) :
        n \in Names, e \in Emails, d \in Depts, p \in DraftPasswords, u \in UsernameInputs}

\* User.from_orm(user): the row to insert, id still unset
from_orm(req) ==
    [email |-> req.email,
     username |-> req.username,
     avatar |-> req.avatar,
     bio |-> req.bio,
     password |-> get_password_hash(req.password),
     name |-> req.name,
     dept |-> req.dept,
     currency |-> req.currency]

UserResponse(u) ==
    [username |-> u.username,
     name |-> u.name,
     dept |-> u.dept,
     avatar |-> u.avatar,
     bio |-> u.bio,
     currency |-> u.currency]

UserPasswordPatchRequest_ok(password, password_confirm) == password = password_confirm

-----------------------------------------------------------------------------
(* The persistence session *)

Ids(us) == 1..Len(us)

Min(S) == CHOOSE x \in S : \A y \in S : x <= y

\* select(User).where(User.username == username) ... .first()
first_by_username(us, username) ==
    LET hit == {i \in Ids(us) : us[i].username = username}
    IN  IF hit = {} THEN None ELSE Some(us[Min(hit)])

\* select(User).where(User.email == email) ... .first()
first_by_email(us, email) ==
    LET hit == {i \in Ids(us) : us[i].email = email}
    IN  IF hit = {} THEN None ELSE Some(us[Min(hit)])

\* the table with unique=True left off the email column
IntegrityError_username_only(us, row) ==
    \E i \in Ids(us) : us[i].username = row.username

\* the table with no unique column
IntegrityError_never(us, row) == FALSE

\* Field(unique=True) on email and on username: the INSERT raises IntegrityError
IntegrityError(us, row) ==
    \E i \in Ids(us) : us[i].email = row.email \/ us[i].username = row.username

\* session.add(row); session.commit() of a new row: autoincrement primary key
insert(us, row) ==
    Append(us,
        [id |-> Len(us) + 1,
         email |-> row.email,
         username |-> row.username,
         avatar |-> row.avatar,
         bio |-> row.bio,
         password |-> row.password,
         name |-> row.name,
         dept |-> row.dept,
         currency |-> row.currency])

-----------------------------------------------------------------------------
(* dundie.auth *)

\* AuthenticatedUser: a valid session token resolves to a stored user
Principals == {None} \cup {Some(i) : i \in Ids(users)}

\* SuperUser
SuperUser_ok(us, principal) == principal /= None /\ superuser(us[Val(principal)])

\* CanChangeUserPassword: self, superuser, or a pwd_reset token of the target
\* a presented pwd_reset token is one that was minted: it verifies and names its subject
ResetTokens == {None} \cup {Some(t.sub) : t \in {x \in tokens : x.scope = "pwd_reset"}}

CanChangeUserPassword(us, principal, token, username) ==
    LET target == first_by_username(us, username)
    IN  IF target = None THEN None
        ELSE IF \/ (principal /= None /\ us[Val(principal)].username = username)
                \/ (principal /= None /\ superuser(us[Val(principal)]))
                \/ (token /= None /\ Val(token) = username)
             THEN target
             ELSE None

-----------------------------------------------------------------------------
(* Responses *)

Response(op, principal, token, target, email, status, detail, body) ==
    [op |-> op, principal |-> principal, token |-> token, target |-> target,
     email |-> email, status |-> status, detail |-> detail, body |-> body]

NoResponse == Response("none", None, None, None, None, 0, "", None)

-----------------------------------------------------------------------------
(* migrations/versions/491f4464b587_ensure_admin_user.py *)

admin_row ==
    [email |-> "admin@dm.com",
     username |-> S_admin,
     avatar |-> None,
     bio |-> None,
     password |-> get_password_hash("admin"),
     name |-> <<"A", "d", "m", "i", "n">>,
     dept |-> "management",
     currency |-> "USD"]

\* upgrade without its try/except: the IntegrityError of a re-run escapes
upgrade_unguarded ==
    /\ IF IntegrityError(users, admin_row)
       THEN /\ users' = users
            /\ resp' = Response("upgrade", None, None, Some(S_admin),
                                Some("admin@dm.com"), 0, "IntegrityError", None)
       ELSE /\ users' = insert(users, admin_row)
            /\ resp' = Response("upgrade", None, None, Some(S_admin),
                                Some("admin@dm.com"), 0, "commit", None)
    /\ UNCHANGED <<inflight, resetVars, ledgerVars>>

upgrade ==
    /\ IF IntegrityError(users, admin_row)
       THEN /\ users' = users
            /\ resp' = Response("upgrade", None, None, Some(S_admin),
                                Some("admin@dm.com"), 0, "rollback", None)
       ELSE /\ users' = insert(users, admin_row)
            /\ resp' = Response("upgrade", None, None, Some(S_admin),
                                Some("admin@dm.com"), 0, "commit", None)
    /\ UNCHANGED <<inflight, resetVars, ledgerVars>>

-----------------------------------------------------------------------------
(* routes/user.py *)

\* The handler returns session.exec(...).first() as it is, None included, and never
\* raises. With a user the response is its UserResponse; with None the framework
\* either sends the null body (200) or rejects it against the declared return type
\* (500), by its version.
get_user_by_username ==
    \E username \in TargetUsernames :
        LET user == first_by_username(users, username)
        IN  /\ IF user /= None
               THEN resp' = Response("get_user_by_username", None, None, Some(username),
                                     None, 200, "", Some(UserResponse(Val(user))))
               ELSE \E status \in {200, 500} :
                        resp' = Response("get_user_by_username", None, None, Some(username),
                                         None, status, "", None)
            /\ UNCHANGED <<userVars, resetVars, ledgerVars>>

\* the lookup comparing the name column instead of the username column
username_taken_by_name(us, username) == \E i \in Ids(us) : us[i].name = username

\* the LBYL lookup of create_user
username_taken(us, username) == first_by_username(us, username) /= None

\* create_user before session.add: the SuperUser dependency, then the LBYL lookup.
\* None when the request goes on to session.add(db_user), else the error response.
create_user_rejected(us, principal, user) ==
    IF principal = None
    THEN Some(Response("create_user", principal, None, Some(user.username),
                       Some(user.email), 401, "Unauthorized", None))
    ELSE IF ~SuperUser_ok(us, principal)
    THEN Some(Response("create_user", principal, None, Some(user.username),
                       Some(user.email), 403, "Forbidden", None))
    ELSE IF username_taken(us, user.username)
    THEN Some(Response("create_user", principal, None, Some(user.username),
                       Some(user.email), 409, "Username already taken", None))
    ELSE None

\* create_user from session.commit() on (EAFP): the new table and the response
create_user_committed(us, principal, db_user) ==
    IF IntegrityError(us, db_user)
    THEN [users |-> us,
          resp |-> Response("create_user", principal, None, Some(db_user.username),
                            Some(db_user.email), 500, "Database IntegrityError", None)]
    ELSE [users |-> insert(us, db_user),
          resp |-> Response("create_user", principal, None, Some(db_user.username),
                            Some(db_user.email), 201, "", Some(UserResponse(db_user)))]

\* create_user handled by a single worker: the coroutine never awaits, so it runs whole
create_user ==
    \E principal \in Principals, user \in UserRequests :
        LET rejected == create_user_rejected(users, principal, user)
            done == create_user_committed(users, principal, from_orm(user))
        IN  IF rejected /= None
            THEN /\ resp' = Val(rejected)
                 /\ UNCHANGED <<userVars, resetVars, ledgerVars>>
            ELSE /\ users' = done.users
                 /\ resp' = done.resp
                 /\ UNCHANGED <<inflight, resetVars, ledgerVars>>

\* create_user on one of several workers, first half: up to session.add(db_user)
create_user_lookup ==
    \E principal \in Principals, user \in UserRequests :
        LET rejected == create_user_rejected(users, principal, user)
        IN  IF rejected /= None
            THEN /\ resp' = Val(rejected)
                 /\ UNCHANGED <<userVars, resetVars, ledgerVars>>
            ELSE /\ Len(inflight) < MaxInflight
                 /\ inflight' = Append(inflight,
                                       [principal |-> principal, db_user |-> from_orm(user)])
                 /\ resp' = Response("create_user_lookup", principal, None,
                                     Some(user.username), Some(user.email), 0, "pending", None)
                 /\ UNCHANGED <<users, resetVars, ledgerVars>>

RemoveAt(s, k) == [i \in 1..(Len(s) - 1) |-> IF i < k THEN s[i] ELSE s[i + 1]]

\* create_user on one of several workers, second half: session.commit() on
create_user_commit ==
    \E k \in 1..Len(inflight) :
        LET req == inflight[k]
            done == create_user_committed(users, req.principal, req.db_user)
        IN  /\ inflight' = RemoveAt(inflight, k)
            /\ users' = done.users
            /\ resp' = done.resp
            /\ UNCHANGED <<resetVars, ledgerVars>>

\* the ownership check that lets only superusers through
update_user_forbidden_self(user, current_user) == ~superuser(current_user)

\* the ownership check of update_user
update_user_forbidden(user, current_user) ==
    user.id /= current_user.id /\ ~superuser(current_user)

\* update_user up to its last raise: None when the patch is applied, else the error
update_user_error(us, principal, username) ==
    LET user == first_by_username(us, username)
    IN  IF principal = None
        THEN Some([status |-> 401, detail |-> "Unauthorized"])
        ELSE IF user = None
        THEN Some([status |-> 404, detail |-> "User not found"])
        ELSE IF update_user_forbidden(Val(user), us[Val(principal)])
        THEN Some([status |-> 403, detail |-> "You can only update your own profiel"])
        ELSE None

update_user ==
    \E principal \in Principals, username \in TargetUsernames,
       avatar \in AvatarInputs, bio \in BioInputs :
        LET error == update_user_error(users, principal, username)
        IN  IF error /= None
            THEN /\ resp' = Response("update_user", principal, None, Some(username), None,
                                     Val(error).status, Val(error).detail, None)
                 /\ UNCHANGED <<userVars, resetVars, ledgerVars>>
            ELSE LET u == Val(first_by_username(users, username))
                     patched == [u EXCEPT
                                   !.avatar = IF avatar /= None THEN avatar ELSE u.avatar,
                                   !.bio = IF bio /= None THEN bio ELSE u.bio]
                 IN  /\ users' = [users EXCEPT ![u.id] = patched]
                     /\ resp' = Response("update_user", principal, None, Some(username),
                                         None, 200, "", Some(UserResponse(patched)))
                     /\ UNCHANGED <<inflight, resetVars, ledgerVars>>

change_password ==
    \E principal \in Principals, token \in ResetTokens,
       username \in TargetUsernames, password \in NewPasswords,
       password_confirm \in PasswordConfirms :
        LET user == CanChangeUserPassword(users, principal, token, username)
        IN  IF user = None
            THEN /\ resp' = Response("change_password", principal, token, Some(username),
                                     None, 403, "Forbidden", None)
                 /\ UNCHANGED <<userVars, resetVars, ledgerVars>>
            ELSE IF ~UserPasswordPatchRequest_ok(password, password_confirm)
            THEN /\ resp' = Response("change_password", principal, token, Some(username),
                                     None, 400, "Passwords do not match", None)
                 /\ UNCHANGED <<userVars, resetVars, ledgerVars>>
            ELSE LET u == Val(user)
                 IN  /\ users' = [users EXCEPT ![u.id].password = get_password_hash(password)]
                     /\ resp' = Response("change_password", principal, token, Some(username),
                                         None, 200, "", Some(UserResponse(u)))
                     /\ UNCHANGED <<inflight, resetVars, ledgerVars>>

\* send_password_reset_token: the acknowledgment never depends on the store
send_password_reset_token ==
    \E email \in ResetEmails :
        /\ Len(background_tasks) < MaxTasks
        /\ background_tasks' = Append(background_tasks, email)
        /\ resp' = Response("send_password_reset_token", None, None, None, Some(email),
                            200, AckMessage, None)
        /\ UNCHANGED <<userVars, tokens, outbox, email_log, ledgerVars>>

-----------------------------------------------------------------------------
(* tasks/user.py *)

\* create_access_token(data={"sub": username}, scope="pwd_reset")
create_access_token(sub, scope) == [sub |-> sub, scope |-> scope]

\* the task with the where clause left off its select: the first stored user is taken
pwd_reset_effect_no_where(us, email) ==
    IF us = <<>>
    THEN [tokens |-> {}, outbox |-> {}, email_log |-> {email}]
    ELSE LET pwd_reset_token == create_access_token(us[1].username, "pwd_reset")
         IN  [tokens |-> {pwd_reset_token},
              outbox |-> {[to |-> us[1].email, pwd_reset_token |-> pwd_reset_token]},
              email_log |-> {}]

\* try_to_send_pwd_reset_email(email): what it adds to the tokens minted, to the
\* messages sent and to email.log
pwd_reset_effect(us, email) ==
    LET user == first_by_email(us, email)
    IN  IF user = None
        THEN [tokens |-> {}, outbox |-> {}, email_log |-> {email}]
        ELSE LET pwd_reset_token == create_access_token(Val(user).username, "pwd_reset")
             IN  [tokens |-> {pwd_reset_token},
                  outbox |-> {[to |-> Val(user).email, pwd_reset_token |-> pwd_reset_token]},
                  email_log |-> {}]

try_to_send_pwd_reset_email ==
    /\ background_tasks /= <<>>
    /\ LET email == Head(background_tasks)
           effect == pwd_reset_effect(users, email)
       IN  /\ background_tasks' = Tail(background_tasks)
           /\ tokens' = tokens \cup effect.tokens
           /\ outbox' = outbox \cup effect.outbox
           /\ email_log' = email_log \cup effect.email_log
           /\ resp' = Response("try_to_send_pwd_reset_email", None, None, None, Some(email),
                               0, "", None)
    /\ UNCHANGED <<userVars, ledgerVars>>

-----------------------------------------------------------------------------
(* The ledger: models/user.py relationships and the Balance Engine *)

RECURSIVE SumValues(_)
SumValues(txs) == IF txs = <<>> THEN 0 ELSE Head(txs).value + SumValues(Tail(txs))

\* incomes joined on the sender column
incomes_from_id(txs, uid) == SelectSeq(txs, LAMBDA t : t.from_id = uid)

\* User.incomes: primaryjoin User.id == Transaction.user_id
incomes(txs, uid) == SelectSeq(txs, LAMBDA t : t.user_id = uid)

\* User.expenses: primaryjoin User.id == Transaction.from_id
expenses(txs, uid) == SelectSeq(txs, LAMBDA t : t.from_id = uid)

\* User.balance: the value of the user's Balance row, 0 without one
balance(bal, uid) ==
    LET rows == {b \in bal : b.user_id = uid}
    IN  IF rows /= {} THEN (CHOOSE b \in rows : TRUE).value ELSE 0

\* Ledger.append(fromUser, toUser, value): the entry is added and the Balance row
\* of each party is set to what its entries now sum to
add_transaction ==
    \E user \in Ids(users), from_user \in Ids(users), value \in TxValues :
        LET txs == Append(transactions,
                          [user_id |-> user, from_id |-> from_user, value |-> value])
            holders == {user, from_user}
        IN  /\ Len(transactions) < MaxTx
            /\ transactions' = txs
            /\ balances' = {b \in balances : b.user_id \notin holders} \cup
                   {[user_id |-> h,
                     value |-> SumValues(incomes(txs, h)) - SumValues(expenses(txs, h))] :
                        h \in holders}
            /\ UNCHANGED <<userVars, resp, resetVars>>

-----------------------------------------------------------------------------
(* Specifications *)

Init ==
    /\ users = <<>>
    /\ inflight = <<>>
    /\ resp = NoResponse
    /\ background_tasks = <<>>
    /\ tokens = {}
    /\ outbox = {}
    /\ email_log = {}
    /\ transactions = <<>>
    /\ balances = {}

\* One worker: every request of routes/user.py runs whole
Next ==
    \/ upgrade
    \/ get_user_by_username
    \/ create_user
    \/ update_user
    \/ change_password

Spec == Init /\ [][Next]_vars

\* The password-reset flow with everything that writes a password
NextReset ==
    \/ upgrade
    \/ create_user
    \/ change_password
    \/ send_password_reset_token
    \/ try_to_send_pwd_reset_email

SpecReset == Init /\ [][NextReset]_vars

\* Several workers and the migration: create_user split at its two database trips
NextWorkers ==
    \/ upgrade
    \/ create_user_lookup
    \/ create_user_commit

SpecWorkers == Init /\ [][NextWorkers]_vars

\* The ledger of a seeded store with two more users
LedgerUsers ==
    insert(insert(insert(<<>>, admin_row),
                  from_orm(UserRequest(<<"J", " ", "H">>, "jim@dm.com", "sales", "pw1", None))),
           from_orm(UserRequest(<<"P", "_", "B">>, "pam@dm.com", "sales", "pw1", None)))

InitLedger ==
    /\ users = LedgerUsers
    /\ inflight = <<>>
    /\ resp = NoResponse
    /\ background_tasks = <<>>
    /\ tokens = {}
    /\ outbox = {}
    /\ email_log = {}
    /\ transactions = <<>>
    /\ balances = {}

NextLedger == add_transaction

SpecLedger == InitLedger /\ [][NextLedger]_vars

-----------------------------------------------------------------------------
(* Properties *)

HasUsername(us, username) == \E i \in Ids(us) : us[i].username = username
HasEmail(us, email) == \E i \in Ids(us) : us[i].email = email
RowOf(us, username) == us[CHOOSE i \in Ids(us) : us[i].username = username]
IsManagement(us, principal) == us[Val(principal)].dept = "management"

RECURSIVE SignedSum(_, _)
SignedSum(txs, uid) ==
    IF txs = <<>> THEN 0
    ELSE (IF Head(txs).user_id = uid THEN Head(txs).value ELSE 0)
         - (IF Head(txs).from_id = uid THEN Head(txs).value ELSE 0)
         + SignedSum(Tail(txs), uid)

Involved(txs, uid) == \E k \in 1..Len(txs) : txs[k].user_id = uid \/ txs[k].from_id = uid

\* C1: after any sequence of ledger appends, every user's balance is the sum of
\* the values it received minus the sum of the values it sent, and is 0 for a
\* user that is party to no transaction.
C1_BalanceIsSignedSum ==
    \A uid \in Ids(users) :
        /\ balance(balances, uid) = SignedSum(transactions, uid)
        /\ ~Involved(transactions, uid) => balance(balances, uid) = 0

\* C1 witness: jim sent 100 to pam and got 30 back, admin took no part
C1_Witness ==
    /\ Len(transactions) = 2
    /\ transactions[1] = [user_id |-> 3, from_id |-> 2, value |-> 100]
    /\ transactions[2] = [user_id |-> 2, from_id |-> 3, value |-> 30]
    /\ balance(balances, 2) = -70
    /\ balance(balances, 3) = 70
    /\ balance(balances, 1) = 0

\* who may change the password of the stored user i
MayChangePassword(us, principal, token, i) ==
    \/ principal /= None /\ Val(principal) = i
    \/ principal /= None /\ IsManagement(us, principal)
    \/ token /= None /\ Val(token) = us[i].username
                     /\ [sub |-> us[i].username, scope |-> "pwd_reset"] \in tokens

\* C2: a stored password hash changes only in a change_password step whose
\* principal is that user, a superuser, or the holder of a pwd_reset token minted
\* for that user; a change_password by a non-superuser on another user (with no
\* such token) is answered 403 and changes no stored user.
C2_PasswordChangeAuthorized ==
    [][/\ \A i \in Ids(users) :
            users'[i].password /= users[i].password =>
                /\ resp'.op = "change_password"
                /\ resp'.status = 200
                /\ resp'.target = Some(users[i].username)
                /\ MayChangePassword(users, resp'.principal, resp'.token, i)
       /\ \A i \in Ids(users) :
            (/\ resp'.op = "change_password"
             /\ resp'.target = Some(users[i].username)
             /\ resp'.principal /= None
             /\ ~MayChangePassword(users, resp'.principal, resp'.token, i))
            => resp'.status = 403 /\ users' = users
      ]_vars

\* C2 witness: a non-superuser was refused on the admin's password, in a store
\* where a password has been changed and a pwd_reset token has been minted
C2_Witness ==
    /\ resp.op = "change_password"
    /\ resp.status = 403
    /\ resp.principal /= None
    /\ ~IsManagement(users, resp.principal)
    /\ resp.target = Some(S_admin)
    /\ \E i \in Ids(users) : users[i].password = get_password_hash("pw2")
    /\ tokens /= {}

\* C3: update_user on a stored target by an authenticated principal answers 200
\* exactly when the principal is the target or is a superuser, and then only the
\* target's avatar and bio may change; otherwise it answers 403 and no stored
\* user changes.
C3_UpdateUserOwnerOrSuperuser ==
    [][(/\ resp'.op = "update_user"
        /\ resp'.principal /= None
        /\ HasUsername(users, Val(resp'.target)))
       => LET t == RowOf(users, Val(resp'.target))
          IN  IF Val(resp'.principal) = t.id \/ IsManagement(users, resp'.principal)
              THEN /\ resp'.status = 200
                   /\ Len(users') = Len(users)
                   /\ \A i \in Ids(users) : i /= t.id => users'[i] = users[i]
                   /\ [users'[t.id] EXCEPT !.avatar = t.avatar, !.bio = t.bio] = t
              ELSE /\ resp'.status = 403
                   /\ users' = users
      ]_vars

\* C3 witness: a non-superuser was refused on the admin's profile, which a patch
\* had filled before
C3_Witness ==
    /\ resp.op = "update_user"
    /\ resp.status = 403
    /\ resp.target = Some(S_admin)
    /\ ~IsManagement(users, resp.principal)
    /\ users[1].avatar /= None
    /\ users[1].bio /= None

\* a create_user request that got past its SuperUser dependency
CreateUserEntered(r) == r.op = "create_user" /\ r.status \notin {401, 403}

\* C4: create_user with the username of a stored user answers 409 and leaves the
\* stored users as they were.
C4_DuplicateUsernameConflict ==
    [][(CreateUserEntered(resp') /\ HasUsername(users, Val(resp'.target)))
       => resp'.status = 409 /\ users' = users]_vars

\* C4 witness: a 409 for a name whose generated username is the one of a user
\* stored under another name
C4_Witness ==
    /\ resp.op = "create_user"
    /\ resp.status = 409
    /\ resp.target = Some(<<"j", "-", "h">>)
    /\ Len(users) = 2
    /\ users[2].username = <<"j", "-", "h">>

\* C5 as stated: create_user with a fresh username and the email of a stored
\* user answers Conflict (409) and leaves the stored users as they were.
C5_DuplicateEmailConflict ==
    [][(/\ CreateUserEntered(resp')
        /\ ~HasUsername(users, Val(resp'.target))
        /\ HasEmail(users, Val(resp'.email)))
       => resp'.status = 409 /\ users' = users]_vars

\* C5 amended: create_user with a fresh username and the email of a stored user
\* answers 500 "Database IntegrityError" and leaves the stored users as they were.
C5_DuplicateEmailServerError ==
    [][(/\ CreateUserEntered(resp')
        /\ ~HasUsername(users, Val(resp'.target))
        /\ HasEmail(users, Val(resp'.email)))
       => /\ resp'.status = 500
          /\ resp'.detail = "Database IntegrityError"
          /\ users' = users]_vars

\* C5 witness: a fresh username with the admin's email was refused
C5_Witness ==
    /\ resp.op = "create_user"
    /\ resp.status = 500
    /\ resp.email = Some("admin@dm.com")
    /\ ~HasUsername(users, Val(resp.target))
    /\ Len(users) = 1

\* C6: send_password_reset_token answers 200 with the one acknowledgment for
\* every email; try_to_send_pwd_reset_email run for an email of no stored user
\* mints no token and sends no message, and adds the email to email.log.
C6_ResetRequestDisclosesNothing ==
    [][/\ resp'.op = "send_password_reset_token"
            => resp'.status = 200 /\ resp'.detail = AckMessage
       /\ (resp'.op = "try_to_send_pwd_reset_email" /\ ~HasEmail(users, Val(resp'.email)))
            => /\ tokens' = tokens
               /\ outbox' = outbox
               /\ email_log' = email_log \cup resp'.email
      ]_vars

\* C6 witness: the task ran for an email of no stored user while users are stored
C6_Witness ==
    /\ resp.op = "try_to_send_pwd_reset_email"
    /\ users /= <<>>
    /\ ~HasEmail(users, Val(resp.email))
    /\ Val(resp.email) \in email_log
    /\ tokens = {}
    /\ outbox = {}

\* C7 as stated: for a non-superuser principal and a target username other than
\* its own, update_user ends the same way whether or not the target is stored.
C7_UpdateUserHidesExistence ==
    \A p \in Ids(users), t1 \in TargetUsernames, t2 \in TargetUsernames :
        (/\ users[p].dept /= "management"
         /\ t1 /= users[p].username
         /\ t2 /= users[p].username)
        => update_user_error(users, Some(p), t1) = update_user_error(users, Some(p), t2)

\* the admin rows of the table
AdminRows(us) == {i \in Ids(us) : us[i].username = S_admin}

\* C8: after a run of the seeding exactly one user "admin" is stored, with email
\* admin@dm.com and department management; a run that finds it stored leaves the
\* stored users as they were and swallows the uniqueness conflict.
C8_SeedingIdempotent ==
    [][resp'.op = "upgrade"
       => /\ Cardinality(AdminRows(users')) = 1
          /\ \A i \in AdminRows(users') :
                users'[i].email = "admin@dm.com" /\ users'[i].dept = "management"
          /\ AdminRows(users) /= {} => users' = users /\ resp'.detail = "rollback"
          /\ resp'.detail \in {"commit", "rollback"}
      ]_vars

\* C8 witness: a re-run of the seeding on a store that holds the admin and one more
C8_Witness ==
    /\ resp.op = "upgrade"
    /\ resp.detail = "rollback"
    /\ Len(users) = 2
    /\ Cardinality(AdminRows(users)) = 1

\* C9 as stated: get_user_by_username answers with the user's view when the
\* username is stored and with NotFound (404) when it is not.
C9_GetUserOrNotFound ==
    resp.op = "get_user_by_username"
    => IF HasUsername(users, Val(resp.target))
       THEN resp.status = 200
            /\ resp.body = Some(UserResponse(RowOf(users, Val(resp.target))))
       ELSE resp.status = 404

NoDuplicates(us) ==
    \A i \in Ids(us), j \in Ids(us) :
        i /= j => us[i].username /= us[j].username /\ us[i].email /= us[j].email

====
